---- MODULE Spec2Model ----
(***************************************************************************)
(* Core agent of the learning-resolution coach: commitments, premortem     *)
(* risks, versioned weekly plans, daily tasks, check-ins and memory rules, *)
(* as the request handlers of apps/backend/core-agent read and write them. *)
(*                                                                         *)
(* Every request runs on one asyncio event loop with its own database      *)
(* session: the code between two awaits is one atomic step, and the only   *)
(* awaits that suspend are the calls to the content generator and to the   *)
(* resource lookup.  Scores are scaled by 100 (0.8 is 80), dates are day   *)
(* numbers, day 0 is a Monday and the service starts on day StartDay.     *)
(* The evaluator (apps/backend/evaluator) is a second service with its own *)
(* event loop on the same database: it writes the quizzes and the concept  *)
(* mastery that the core agent's scoring reads.                            *)
(***************************************************************************)
EXTENDS Integers, Sequences, FiniteSets, TLC

\* ------------------------------------------------------------------ bounds
MaxDay == 8
MaxPlans == 3
MaxCommitments == 2
MaxCheckins == 2
MaxReqs == 2
MaxTaskId == 2
MaxQuizzes == 6
MaxGraders == 2
MaxAttempts == 6
RaceQuizzes == 2

\* ------------------------------------------------------- program constants
MinTimebox == 10
MaxTimebox == 120
MaxReasons == 5
MaxMitigations == 3
MaxNextTasks == 3

\* MemoryRule.confidence is an IEEE double.  The double x that lies next to
\* k/10 is written 1000 * k + d, with d = x - k/10 in units of u = 2^-56 / 5:
\* 0.5 is 5000, 1.0 is 10000, and the double 0.1 is 1/10 + 2u.
TenthUnits == 1000
NewRuleConfidence == 5000
MaxConfidence == 10000
TenthError == 2
\* The spacing of the doubles in [0.5, 1), 2^-53, is 40u; in [1, 2) it is 80u.
\* 2^55 u = 1/10 is at 128 modulo 160u.
UlpBelowOne == 40
TenthPhase == 128

\* The service starts on a Saturday, so that a week boundary is near.
StartDay == 5

Users == {1, 2}
Reqs == 1..MaxReqs
Graders == 1..MaxGraders
TaskTypes == {"reading", "coding", "review", "quiz"}
Statuses == {"active", "at_risk", "recovering"}
Adjustments == {"reduce_scope", "repeat_concepts", "increase_challenge", "keep"}

VARIABLES
    today,        \* date.today() as a day number
    commitments,  \* table commitments: row id = index
    risks,        \* table premortem_risks
    plans,        \* table plans
    tasks,        \* table daily_tasks
    checkins,     \* table checkins
    rules,        \* table memory_rules
    req,          \* the handlers suspended at an await, per request slot
    last,         \* the response of the request that ended last
    quizzes,      \* table quizzes, each row with its quiz_questions and quiz_attempts
    mastery,      \* table concept_mastery
    grading       \* the evaluator's handlers suspended at an await, per slot

db == <<commitments, risks, plans, tasks, checkins, rules>>
\* What the evaluator service writes; the core agent only reads it.
evaluator == <<quizzes, mastery, grading>>
vars == <<today, commitments, risks, plans, tasks, checkins, rules, req, last,
          quizzes, mastery, grading>>

Min(a, b) == IF a < b THEN a ELSE b
Max(a, b) == IF a > b THEN a ELSE b

\* Query.first() without ORDER BY: any matching row, None (0) when there is none.
First(S) == IF S = {} THEN {0} ELSE S

\* _get_week_start: the Monday on or before d.
WeekStart(d) == d - (d % 7)

\* Mutant: the filter on Commitment.user_id is missing.
ActiveCommitmentsOfAnyone(u) ==
    {i \in DOMAIN commitments : commitments[i].is_active}

\* The active-commitment query of every handler.
ActiveCommitments(u) ==
    {i \in DOMAIN commitments : commitments[i].user_id = u /\ commitments[i].is_active}

ActivePlans(u) ==
    {i \in DOMAIN plans : plans[i].user_id = u /\ plans[i].is_active}

\* The existing_plan query of generate_weekly_plan: active, this user, this week.
ExistingPlans(u, ws) ==
    {i \in ActivePlans(u) : plans[i].week_start = ws}

\* ------------------------------------------------------------ the decision
NextTask(t, tb, ty) == [task |-> t, timebox_min |-> tb, type |-> ty]

Decision(reason, version, adh, kn, ret, status, mitigations, nexts, resources, flags) ==
    [reason |-> reason, version |-> version,
     adherence |-> adh, knowledge |-> kn, retention |-> ret, status |-> status,
     plan_adjustment |-> "keep", risk_mitigation |-> mitigations,
     next_tasks |-> nexts, resources_used |-> resources, quality_flags |-> flags]

NoCommitmentDecision ==
    Decision("no_commitment", 0, 0, 0, 0, "at_risk", <<>>,
             <<NextTask("Complete intake assessment", 10, "review")>>, <<>>,
             <<"no_commitment">>)

\* The pydantic constraints of AgentDecision, Signals, Action, NextTask, ResourceUsed.
SchemaValid(d) ==
    /\ d.reason # "null"
    /\ d.adherence \in 0..100 /\ d.knowledge \in 0..100 /\ d.retention \in 0..100
    /\ d.status \in Statuses
    /\ d.plan_adjustment \in Adjustments
    /\ \A i \in DOMAIN d.risk_mitigation : d.risk_mitigation[i] # "null"
    /\ \A i \in DOMAIN d.next_tasks :
          /\ d.next_tasks[i].task # "null"
          /\ d.next_tasks[i].timebox_min \in MinTimebox..MaxTimebox
          /\ d.next_tasks[i].type \in TaskTypes
    /\ \A i \in DOMAIN d.resources_used : d.resources_used[i] \in 0..100

NoBody == [reason |-> "none"]

\* What the caller of a command gets: the command and its arguments (the user,
\* force, the task id), the HTTP status, the body, and the plan the command
\* returned or inserted (0 when none).
Response(op, u, force, id, code, body, plan) ==
    [op |-> op, user |-> u, force |-> force, task_id |-> id,
     code |-> code, body |-> body, plan |-> plan]

\* An exception the handler lets escape: FastAPI answers 500.
Failure(op, u, force, plan) == Response(op, u, force, 0, 500, NoBody, plan)

\* A handler that returns d: AgentDecision(...) and response_model validate it,
\* and a value the schema rejects is a ValidationError, a 500 as well.
Returned(op, u, force, d, plan) ==
    IF SchemaValid(d) THEN Response(op, u, force, 0, 200, d, plan)
    ELSE Failure(op, u, force, plan)

\* ------------------------------------------------------------ request slots
Idle == [pc |-> "idle", user |-> 0, commitment |-> 0, week_start |-> 0,
         existing |-> 0, force |-> FALSE, reasons |-> 0, yesterday |-> "none", blockers |-> "none",
         rag |-> "none", signals |-> NoBody]

InFlight == {r \in Reqs : req[r].pc # "idle"}

\* A new request takes the lowest free slot.
FreeSlot(r) == r \in Reqs \ InFlight /\ \A q \in Reqs \ InFlight : r <= q

\* The handler in slot r stops at an await with these locals.
Suspend(r, locals) == req' = [req EXCEPT ![r] = locals]

Resume(r) == req' = [req EXCEPT ![r] = Idle]

\* A slot of the evaluator: the quiz being graded, the submitted answers (the
\* question each one names, 0 for a question that is not of the quiz), the
\* answer being judged, the score so far, and the QuizAttempts added to the
\* session but not committed yet.
NotGrading == [pc |-> "idle", user |-> 0, n |-> 0, quiz |-> 0, answers |-> <<>>, pos |-> 0,
               total |-> 0, pending |-> 0]

Grading == {g \in Graders : grading[g].pc # "idle"}

FreeGrader(g) == g \in Graders \ Grading /\ \A h \in Graders \ Grading : g <= h

Init ==
    /\ today = StartDay
    /\ commitments = <<>>
    /\ risks = <<>>
    /\ plans = <<>>
    /\ tasks = <<>>
    /\ checkins = <<>>
    /\ rules = <<>>
    /\ req = [r \in Reqs |-> Idle]
    /\ last = Response("none", 0, FALSE, 0, 200, NoBody, 0)
    /\ quizzes = <<>>
    /\ mastery = <<>>
    /\ grading = [g \in Graders |-> NotGrading]

\* The calendar moves on, also while a handler is suspended.
AdvanceDay ==
    /\ today < MaxDay
    /\ today' = today + 1
    /\ UNCHANGED <<db, req, last, evaluator>>

\* ------------------------------------------------------- create-commitment
\* Mutant: the UPDATE that deactivates the user's commitments is left out.
DeactivateNoCommitments(u) == commitments

\* The UPDATE of create_commitment: every active commitment of u goes inactive.
DeactivateCommitments(u) ==
    [i \in DOMAIN commitments |->
        IF commitments[i].user_id = u /\ commitments[i].is_active
        THEN [commitments[i] EXCEPT !.is_active = FALSE]
        ELSE commitments[i]]

\* What the content generator may answer to the intake prompt: it raises, or it
\* returns a dict whose initial_tasks is a list of 0..2 strings or null.
IntakeOutcomes ==
    {[raised |-> TRUE, null_tasks |-> FALSE, initial_tasks |-> <<>>],
     [raised |-> FALSE, null_tasks |-> FALSE, initial_tasks |-> <<>>],
     [raised |-> FALSE, null_tasks |-> FALSE, initial_tasks |-> <<"t1">>],
     [raised |-> FALSE, null_tasks |-> FALSE, initial_tasks |-> <<"t1", "t2">>],
     [raised |-> FALSE, null_tasks |-> TRUE, initial_tasks |-> <<>>]}

\* create_commitment up to its await: deactivate, insert, commit.
IntakeBegin(r, u) ==
    /\ FreeSlot(r)
    /\ Len(commitments) < MaxCommitments
    /\ commitments' = Append(DeactivateCommitments(u), [user_id |-> u, is_active |-> TRUE])
    /\ Suspend(r, [Idle EXCEPT !.pc = "intake_llm", !.user = u,
                                 !.commitment = Len(commitments) + 1])
    /\ UNCHANGED <<today, risks, plans, tasks, checkins, rules, last, evaluator>>

\* The decision create_commitment builds from the generator's answer.
IntakeDecision(out) ==
    LET initial_tasks == IF out.raised THEN <<"Complete premortem assessment">>
                         ELSE out.initial_tasks
        first == IF Len(initial_tasks) > 0 THEN initial_tasks[1]
                 ELSE "Complete premortem assessment"
        next_tasks == IF Len(initial_tasks) > 1
                      THEN <<NextTask(first, 15, "review"), NextTask(initial_tasks[2], 20, "reading")>>
                      ELSE <<NextTask(first, 15, "review")>>
    IN  Decision("intake", 0, 100, 0, 0, "active", <<>>, next_tasks, <<>>, <<>>)

\* create_commitment after its await; len(None) escapes as a TypeError.
IntakeReturn(r, out) ==
    /\ req[r].pc = "intake_llm"
    /\ last' = IF ~out.raised /\ out.null_tasks
               THEN Failure("intake", req[r].user, FALSE, 0)
               ELSE Returned("intake", req[r].user, FALSE, IntakeDecision(out), 0)
    /\ Resume(r)
    /\ UNCHANGED <<today, db, evaluator>>

\* ----------------------------------------------------- request-weekly-plan
Entry(t, tb, ty, d) == [task |-> t, timebox_min |-> tb, type |-> ty, day |-> d, dict |-> TRUE]

\* A list element that is not a dict (a bare string): .get raises AttributeError.
BadEntry == [task |-> "null", timebox_min |-> 0, type |-> "null", day |-> 0, dict |-> FALSE]

PlanJson(has_tasks, entries) == [tasks_key |-> has_tasks, tasks |-> entries]

\* _default_plan
DefaultPlan ==
    PlanJson(TRUE, <<Entry("Review fundamentals", 45, "reading", 1),
                     Entry("Practice exercise 1", 30, "coding", 2),
                     Entry("Continue learning", 45, "reading", 3),
                     Entry("Practice exercise 2", 30, "coding", 4),
                     Entry("Weekly review", 20, "review", 5)>>)

\* What structured_output may return for the plan prompt; nothing validates the
\* dict against the schema that is sent along.  A plan within the contract:
InContractPlan == PlanJson(TRUE, <<Entry("a", 45, "reading", 1), Entry("b", 90, "quiz", 7)>>)

\* a dict without the key "tasks":
NoTasksPlan == PlanJson(FALSE, <<>>)

\* a timebox below 10, an unknown task type, a day below 1:
OutOfContractPlan == PlanJson(TRUE, <<Entry("c", 5, "coding", 2), Entry("d", 20, "theory", 0)>>)

\* an element of "tasks" that is not a dict:
MalformedPlan == PlanJson(TRUE, <<Entry("e", 20, "review", 3), BadEntry>>)

\* a day after the seventh (the schema sent along says only "integer"):
LateDayPlan == PlanJson(TRUE, <<Entry("f", 45, "reading", 9)>>)

PlanPayloads == {InContractPlan, NoTasksPlan, OutOfContractPlan, MalformedPlan, LateDayPlan}

\* The generator raises (and _default_plan stands in), or it returns a payload.
PlanOutcome(raised, json) == [raised |-> raised, json |-> IF raised THEN DefaultPlan ELSE json]

PlanOutcomes == {PlanOutcome(TRUE, DefaultPlan)} \cup {PlanOutcome(FALSE, j) : j \in PlanPayloads}

\* plan_data.get("tasks", [])
TasksOf(json) == IF json.tasks_key THEN json.tasks ELSE <<>>

AllDicts(entries) == \A i \in DOMAIN entries : entries[i].dict

\* _plan_to_decision: the first three tasks, unchecked, under fixed signals.
PlanDecision(version, json) ==
    LET ts == TasksOf(json)
        n == Min(MaxNextTasks, Len(ts))
    IN  Decision("Week", version, 100, 0, 0, "active", <<>>,
                 [i \in 1..n |-> NextTask(ts[i].task, ts[i].timebox_min, ts[i].type)],
                 <<>>, <<>>)

PlanResponse(u, force, p, version, json) ==
    IF AllDicts(SubSeq(TasksOf(json), 1, Min(MaxNextTasks, Len(TasksOf(json)))))
    THEN Returned("plan", u, force, PlanDecision(version, json), p)
    ELSE Failure("plan", u, force, p)

\* TaskType(task_type_str), READING on ValueError
TaskTypeOf(ty) == IF ty \in TaskTypes THEN ty ELSE "reading"

\* week_start + timedelta(days=max(0, day - 1))
TaskDate(ws, day) == ws + Max(0, day - 1)

\* _create_daily_tasks: the rows of one plan; they are committed together.
DailyTasks(p, ws, entries) ==
    [i \in DOMAIN entries |->
        [plan_id |-> p, date |-> TaskDate(ws, entries[i].day),
         timebox_min |-> entries[i].timebox_min,
         task_type |-> TaskTypeOf(entries[i].type), status |-> "pending",
         completed_at |-> 0]]

PlansInFlight == Cardinality({r \in Reqs : req[r].pc = "plan_llm"})

\* The version of the plan generate_weekly_plan inserts.
NewVersion(e) == IF e # 0 THEN plans[e].version + 1 ELSE 1

\* Mutant: the flag of the existing plan is flipped, not cleared.
TogglePlans(e) ==
    [i \in DOMAIN plans |-> IF i = e THEN [plans[i] EXCEPT !.is_active = ~@] ELSE plans[i]]

\* "Deactivate old plans": the one row the existing_plan query returned.
DeactivatePlans(e) ==
    [i \in DOMAIN plans |-> IF i = e THEN [plans[i] EXCEPT !.is_active = FALSE] ELSE plans[i]]

\* generate_weekly_plan up to its await (or to its early return).
PlanBegin(r, u, force) ==
    /\ FreeSlot(r)
    /\ \E c \in First(ActiveCommitments(u)) :
         IF c = 0
         THEN /\ last' = Returned("plan", u, force, NoCommitmentDecision, 0)
              /\ UNCHANGED <<today, db, req, evaluator>>
         ELSE \E e \in First(ExistingPlans(u, WeekStart(today))) :
                IF e # 0 /\ ~force
                THEN /\ last' = PlanResponse(u, force, e, plans[e].version, plans[e].plan_json)
                     /\ UNCHANGED <<today, db, req, evaluator>>
                ELSE /\ Len(plans) + PlansInFlight < MaxPlans
                     /\ Suspend(r, [Idle EXCEPT !.pc = "plan_llm", !.user = u, !.commitment = c,
                                             !.week_start = WeekStart(today),
                                             !.existing = e, !.force = force])
                     /\ UNCHANGED <<today, db, last, evaluator>>

\* generate_weekly_plan after its await: deactivate, insert and commit the plan,
\* then materialize and commit its tasks, then build the decision.
PlanReturn(r, out) ==
    /\ req[r].pc = "plan_llm"
    /\ LET u == req[r].user
           e == req[r].existing
           p == Len(plans) + 1
           entries == TasksOf(out.json)
       IN  /\ plans' = Append(DeactivatePlans(e),
                              [user_id |-> u, week_start |-> req[r].week_start,
                               version |-> NewVersion(e), plan_json |-> out.json,
                               is_active |-> TRUE])
           /\ IF AllDicts(entries)
              THEN /\ tasks' = tasks \o DailyTasks(p, req[r].week_start, entries)
                   /\ last' = PlanResponse(u, req[r].force, p, NewVersion(e), out.json)
              ELSE /\ tasks' = tasks
                   /\ last' = Failure("plan", u, req[r].force, p)
    /\ Resume(r)
    /\ UNCHANGED <<today, commitments, risks, checkins, rules, evaluator>>

\* get_today_tasks: the tasks dated today of the first active plan.
TodayTasks(p) ==
    IF p = 0 THEN {} ELSE {t \in DOMAIN tasks : tasks[t].plan_id = p /\ tasks[t].date = today}

GetTodayTasks(u) ==
    /\ \E p \in First(ActivePlans(u)) :
         last' = Response("today", u, FALSE, 0, 200, [reason |-> "tasks", ids |-> TodayTasks(p)], p)
    /\ UNCHANGED <<today, db, req, evaluator>>

\* Mutant: a task that is completed already goes back to pending.
ToggleCompleted(row, now) ==
    IF row.status = "completed" THEN [row EXCEPT !.status = "pending", !.completed_at = now]
    ELSE [row EXCEPT !.status = "completed", !.completed_at = now]

\* task.status = TaskStatus.COMPLETED; task.completed_at = datetime.utcnow()
MarkCompleted(row, now) == [row EXCEPT !.status = "completed", !.completed_at = now]

\* Mutant: the check "if not task" is missing, and task.status raises on None.
CompleteTaskUnchecked(u, id) ==
    /\ IF id \in DOMAIN tasks
       THEN /\ tasks' = [tasks EXCEPT ![id] = MarkCompleted(tasks[id], today)]
            /\ last' = Response("complete", u, FALSE, id, 200,
                                [reason |-> "Task completed", prior |-> tasks[id].status], 0)
       ELSE /\ tasks' = tasks
            /\ last' = Response("complete", u, FALSE, id, 500, NoBody, 0)
    /\ UNCHANGED <<today, commitments, risks, plans, checkins, rules, req, evaluator>>

\* complete_task (routes.py): 404 when the id matches no row; completed_at is
\* the time of the call, here its day, and 0 stands for NULL.  The observation
\* keeps, beside the reply, the status the row had before the call.
CompleteTask(u, id) ==
    /\ IF id \in DOMAIN tasks
       THEN /\ tasks' = [tasks EXCEPT ![id] = MarkCompleted(tasks[id], today)]
            /\ last' = Response("complete", u, FALSE, id, 200,
                                [reason |-> "Task completed", prior |-> tasks[id].status], 0)
       ELSE /\ tasks' = tasks
            /\ last' = Response("complete", u, FALSE, id, 404, [reason |-> "Task not found"], 0)
    /\ UNCHANGED <<today, commitments, risks, plans, checkins, rules, req, evaluator>>


\* --------------------------------------------------------- submit-premortem
Risk(m, prio) == [mitigation |-> m, priority |-> prio]

\* What structured_output may return as "risks" for the premortem prompt.
PremortemPayloads ==
    {<<>>,
     <<Risk("m1", 2), Risk("m2", 1)>>,
     <<Risk("m1", 1), Risk("m2", 2), Risk("m3", 3), Risk("m4", 4)>>,
     <<Risk("null", 1)>>}

PremortemOutcomes == {[raised |-> TRUE, risks |-> <<>>]} \cup
                     {[raised |-> FALSE, risks |-> p] : p \in PremortemPayloads}

\* The fallback of process_premortem: one risk per failure reason, at most 5.
FallbackRisks(n) ==
    [i \in 1..Min(n, MaxReasons) |-> Risk("Create accountability checkpoint", i)]

RisksOf(out, n) == IF out.raised THEN FallbackRisks(n) ELSE out.risks

\* Mutant: the DELETE of the commitment's risks is missing.
InsertRisks(c, rs) ==
    risks \o
    [i \in DOMAIN rs |-> [commitment_id |-> c, mitigation |-> rs[i].mitigation,
                          priority |-> rs[i].priority]]

\* DELETE of the commitment's risks, then one INSERT per risk of the answer.
ReplaceRisks(c, rs) ==
    SelectSeq(risks, LAMBDA x : x.commitment_id # c) \o
    [i \in DOMAIN rs |-> [commitment_id |-> c, mitigation |-> rs[i].mitigation,
                          priority |-> rs[i].priority]]

\* mitigation_rules: the mitigations of the first three risks of the answer.
PremortemDecision(rs) ==
    Decision("premortem", 0, 100, 0, 0, "active",
             [i \in 1..Min(MaxMitigations, Len(rs)) |-> rs[i].mitigation],
             <<NextTask("Review your weekly learning plan", 20, "reading"),
               NextTask("Start with", 45, "reading")>>, <<>>, <<>>)

\* process_premortem up to its await (or to its early return).
PremortemBegin(r, u, n) ==
    /\ FreeSlot(r)
    /\ \E c \in First(ActiveCommitments(u)) :
         IF c = 0
         THEN /\ last' = Returned("premortem", u, FALSE, NoCommitmentDecision, 0)
              /\ UNCHANGED <<today, db, req, evaluator>>
         ELSE /\ Suspend(r, [Idle EXCEPT !.pc = "premortem_llm", !.user = u,
                                         !.commitment = c, !.reasons = n])
              /\ UNCHANGED <<today, db, last, evaluator>>

\* process_premortem after its await; a null mitigation fails the commit
\* (the column is NOT NULL) and the session is rolled back.
PremortemReturn(r, out) ==
    /\ req[r].pc = "premortem_llm"
    /\ LET rs == RisksOf(out, req[r].reasons)
       IN  IF \E i \in DOMAIN rs : rs[i].mitigation = "null"
           THEN /\ risks' = risks
                /\ last' = Failure("premortem", req[r].user, FALSE, 0)
           ELSE /\ risks' = ReplaceRisks(req[r].commitment, rs)
                /\ last' = Returned("premortem", req[r].user, FALSE, PremortemDecision(rs), 0)
    /\ Resume(r)
    /\ UNCHANGED <<today, commitments, plans, tasks, checkins, rules, evaluator>>

\* ------------------------------------------------------------ daily-checkin
\* yesterday: absent; a skip word ("nothing"); text of at most 10 characters;
\* longer text.  The skip word "didn't do anything" is also longer than 10.
Yesterdays == {"none", "nothing", "didn't do anything", "short", "long text"}

SkipWord(y) == y \in {"none", "nothing", "didn't do anything"}

LongText(y) == y \in {"didn't do anything", "long text"}

\* blockers: absent; text containing "time"; other text.
Blockers == {"none", "no time", "other"}

\* What the resource lookup may answer: nothing (or it is down), citations in
\* the contract, a citation whose relevance is above 1.
RagOutcomes == {"none", "ok", "bad"}

Citations(rag) ==
    IF rag = "ok" THEN <<90>> ELSE IF rag = "bad" THEN <<150>> ELSE <<>>

\* What structured_output may return for the check-in prompt.
CheckinPayloads ==
    {[next_task_timebox |-> 45, fallback_task |-> TRUE],
     [next_task_timebox |-> 5, fallback_task |-> FALSE]}

CheckinOutcomes == {[raised |-> TRUE, next_task_timebox |-> 45, fallback_task |-> TRUE]} \cup
                   {[raised |-> FALSE, next_task_timebox |-> p.next_task_timebox,
                     fallback_task |-> p.fallback_task] : p \in CheckinPayloads}

\* Mutant: the query compares rule_value, not rule_type, with the rule type.
RuleRowsByValue(rs, u, ty) == {i \in DOMAIN rs : rs[i].user_id = u /\ rs[i].rule_value = ty}

\* The query of _add_or_update_rule: the rows with this user and rule type.
RuleRows(rs, u, ty) == {i \in DOMAIN rs : rs[i].user_id = u /\ rs[i].rule_type = ty}

\* c + 0.1 in double arithmetic: the sum lies next to the tenth k/10 at the
\* distance raw; it is rounded to the nearest double, a tie to the even one.
PlusTenth(c) ==
    LET k == (c + TenthUnits \div 2) \div TenthUnits + 1
        raw == c - TenthUnits * (k - 1) + TenthError
        g == IF k < 10 \/ (k = 10 /\ raw < 0) THEN UlpBelowOne ELSE 2 * UlpBelowOne
        pos == (TenthPhase * k + raw) % (2 * g)
        a == pos % g
        down == raw - a
        up == raw + (g - a)
    IN  TenthUnits * k +
        (IF 2 * a < g THEN down
         ELSE IF 2 * a > g THEN up
         ELSE IF ((pos - a) \div g) % 2 = 0 THEN down ELSE up)

\* Mutant: the reinforcement also overwrites rule_value.
AddOrOverwriteRule(rs, u, ty, v, e) ==
    IF e # 0
    THEN [rs EXCEPT ![e].confidence = Min(MaxConfidence, PlusTenth(rs[e].confidence)),
                    ![e].rule_value = v]
    ELSE Append(rs, [user_id |-> u, rule_type |-> ty, rule_value |-> v,
                     confidence |-> NewRuleConfidence, is_active |-> TRUE])

\* _add_or_update_rule on the table rs, the query having returned row e.
AddOrUpdateRule(rs, u, ty, v, e) ==
    IF e # 0
    THEN [rs EXCEPT ![e].confidence = Min(MaxConfidence, PlusTenth(rs[e].confidence))]
    ELSE Append(rs, [user_id |-> u, rule_type |-> ty, rule_value |-> v,
                     confidence |-> NewRuleConfidence, is_active |-> TRUE])

\* _update_memory_rules: the two pattern detectors, in order.
UpdateMemoryRules(u, y, b, e1, e2) ==
    LET r1 == IF SkipWord(y)
              THEN AddOrUpdateRule(rules, u, "task_skip", "User skipped learning session", e1)
              ELSE rules
    IN  IF b = "no time"
        THEN AddOrUpdateRule(r1, u, "time_constraint", "User frequently has time constraints", e2)
        ELSE r1

\* One call of _add_or_update_rule, with any rule type and value.
RuleTypes == {"task_skip", "time_constraint"}
RuleValues == {"v1", "v2"}

ReinforceRule(u, ty, v) ==
    /\ \E e \in First(RuleRows(rules, u, ty)) : rules' = AddOrUpdateRule(rules, u, ty, v, e)
    /\ last' = Response("rule", u, FALSE, 0, 200, [reason |-> "rule", rule_type |-> ty, rule_value |-> v], 0)
    /\ UNCHANGED <<today, commitments, risks, plans, tasks, checkins, req, evaluator>>

CheckinDecision(y, b, rag, out) ==
    Decision("checkin", 0, IF LongText(y) THEN 80 ELSE 50, 50, 50,
             IF b = "none" THEN "active" ELSE "at_risk",
             IF b = "none" THEN <<>> ELSE <<"address_blocker">>,
             IF out.fallback_task
             THEN <<NextTask("next", out.next_task_timebox, "reading"),
                    NextTask("[Fallback]", 20, "review")>>
             ELSE <<NextTask("next", out.next_task_timebox, "reading")>>,
             Citations(rag), <<>>)

CheckinsInFlight == Cardinality({r \in Reqs : req[r].pc \in {"checkin_rag", "checkin_llm"}})

\* process_checkin up to its first await (or to its early return).
CheckinBegin(r, u, y, b) ==
    /\ FreeSlot(r)
    /\ \E c \in First(ActiveCommitments(u)) :
         IF c = 0
         THEN /\ last' = Returned("checkin", u, FALSE, NoCommitmentDecision, 0)
              /\ UNCHANGED <<today, db, req, evaluator>>
         ELSE /\ Len(checkins) + CheckinsInFlight < MaxCheckins
              /\ Suspend(r, [Idle EXCEPT !.pc = IF b = "none" THEN "checkin_llm" ELSE "checkin_rag",
                                         !.user = u, !.commitment = c,
                                         !.yesterday = y, !.blockers = b])
              /\ UNCHANGED <<today, db, last, evaluator>>

\* _get_rag_guidance answers; the handler goes on to the content generator.
CheckinRag(r, rag) ==
    /\ req[r].pc = "checkin_rag"
    /\ req' = [req EXCEPT ![r].pc = "checkin_llm", ![r].rag = rag]
    /\ UNCHANGED <<today, db, last, evaluator>>

\* process_checkin after the generator's answer: save the check-in, update the
\* memory rules, build the decision.
CheckinReturn(r, out) ==
    /\ req[r].pc = "checkin_llm"
    /\ LET u == req[r].user
           y == req[r].yesterday
           b == req[r].blockers
       IN  /\ checkins' = Append(checkins, [user_id |-> u, date |-> today])
           /\ \E e1 \in First(RuleRows(rules, u, "task_skip")) :
              \E e2 \in First(RuleRows(rules, u, "time_constraint")) :
                 rules' = UpdateMemoryRules(u, y, b, e1, e2)
           /\ last' = Returned("checkin", u, FALSE, CheckinDecision(y, b, req[r].rag, out), 0)
    /\ Resume(r)
    /\ UNCHANGED <<today, commitments, risks, plans, tasks, evaluator>>

\* ---------------------------------------------------------------- evaluator
\* Quiz.score is NULL until the quiz is graded.
NoScore == -1
\* _default_quiz writes at most three questions, all on the topic.
DefaultQuizQuestions == 3
\* The judge's score above which a concept counts as understood when the judge
\* does not say, and the fallback score above which it does.
JudgeUnderstoodAbove == 60
FallbackUnderstoodAbove == 50

Concepts == {"c1", "c2"}
Topic == "c1"

\* What structured_output may return as the questions of a quiz: the concept
\* of each question, "none" where the key is missing.
QuizPayloads == {<<>>, <<"c1">>, <<"none">>, <<"c1", "c2">>}

QuizOutcomes == {[raised |-> TRUE, concepts |-> <<>>]} \cup
                {[raised |-> FALSE, concepts |-> p] : p \in QuizPayloads}

NumQuestions == {1, 5}

\* _default_quiz
DefaultQuiz(n) == [i \in 1..Min(n, DefaultQuizQuestions) |-> Topic]

QuizzesInFlight == Cardinality({g \in Graders : grading[g].pc = "quiz_llm"})

\* generate_quiz up to its await; the weak concepts it reads go into the prompt.
GenerateBegin(g, u, n) ==
    /\ FreeGrader(g)
    /\ Len(quizzes) + QuizzesInFlight < MaxQuizzes
    /\ grading' = [grading EXCEPT ![g] = [NotGrading EXCEPT !.pc = "quiz_llm", !.user = u, !.n = n]]
    /\ UNCHANGED <<today, db, req, last, quizzes, mastery>>

\* generate_quiz after its await: the Quiz row, then one QuizQuestion per
\* question of the answer.
GenerateReturn(g, out) ==
    /\ grading[g].pc = "quiz_llm"
    /\ quizzes' = Append(quizzes,
                         [user_id |-> grading[g].user, score |-> NoScore, completed |-> FALSE,
                          concepts |-> IF out.raised THEN DefaultQuiz(grading[g].n) ELSE out.concepts,
                          attempts |-> 0])
    /\ last' = Response("quiz", grading[g].user, FALSE, Len(quizzes) + 1, 200, [reason |-> "quiz"], 0)
    /\ grading' = [grading EXCEPT ![g] = NotGrading]
    /\ UNCHANGED <<today, db, req, mastery>>

\* What the judge may answer for one answer: it raises and the answer is
\* matched against the correct one (match: 1.0, 0.5 or 0.0), or it returns a
\* score with or without "concept_understood".
JudgeOutcome(raised, match, score, has, understood) ==
    [raised |-> raised, match |-> match, score |-> score, has_understood |-> has,
     understood |-> understood]

JudgeScores == {0, 50, 100}

JudgeOutcomes ==
    {JudgeOutcome(TRUE, m, 0, FALSE, FALSE) : m \in JudgeScores} \cup
    {JudgeOutcome(FALSE, 0, sc, FALSE, FALSE) : sc \in JudgeScores} \cup
    {JudgeOutcome(FALSE, 0, sc, TRUE, un) : sc \in JudgeScores, un \in BOOLEAN}

\* score and understood after the try/except of submit_quiz.
Judged(out) ==
    IF out.raised
    THEN [score |-> out.match, understood |-> out.match > FallbackUnderstoodAbove]
    ELSE [score |-> out.score,
          understood |-> IF out.has_understood THEN out.understood
                         ELSE out.score > JudgeUnderstoodAbove]

MasteryRows(u, concept) ==
    {i \in DOMAIN mastery : mastery[i].user_id = u /\ mastery[i].concept = concept}

\* Mutant: times_seen grows only when the concept was understood.
UpdateConceptMasterySeenIfCorrect(u, concept, understood, e) ==
    IF e # 0
    THEN [mastery EXCEPT ![e].times_seen = IF understood THEN @ + 1 ELSE @,
                         ![e].times_correct = IF understood THEN @ + 1 ELSE @,
                         ![e].times_wrong = IF understood THEN @ ELSE @ + 1]
    ELSE Append(mastery, [user_id |-> u, concept |-> concept, times_seen |-> 1,
                          times_correct |-> IF understood THEN 1 ELSE 0,
                          times_wrong |-> IF understood THEN 0 ELSE 1])

\* _update_concept_mastery, its query having returned row e (0: none).  It has
\* no await of its own: query, update and commit are one step.
UpdateConceptMastery(u, concept, understood, e) ==
    IF e # 0
    THEN [mastery EXCEPT ![e].times_seen = @ + 1,
                         ![e].times_correct = IF understood THEN @ + 1 ELSE @,
                         ![e].times_wrong = IF understood THEN @ ELSE @ + 1]
    ELSE Append(mastery, [user_id |-> u, concept |-> concept, times_seen |-> 1,
                          times_correct |-> IF understood THEN 1 ELSE 0,
                          times_wrong |-> IF understood THEN 0 ELSE 1])

\* The answer lists a client submits: none, one that names no question of the
\* quiz, one or two that do.
AnswerLists == {<<>>, <<0>>, <<1>>, <<1, 2>>, <<1, 1>>, <<0, 1>>}

\* The next answer after pos whose question is of quiz q (0: none is left);
\* the others are skipped.
NextKnown(q, answers, pos) ==
    LET K == {i \in DOMAIN answers : i > pos /\ answers[i] \in DOMAIN quizzes[q].concepts}
    IN  IF K = {} THEN 0 ELSE CHOOSE i \in K : \A j \in K : i <= j

\* total_score / len(answers) if answers else 0.0; the division is exact for
\* the scores and the answer lists above.
AvgScore(total, answers) == IF answers = <<>> THEN 0 ELSE total \div Len(answers)

AttemptsDue ==
    LET Left(g) == IF grading[g].pc = "judge_llm"
                   THEN Cardinality({i \in DOMAIN grading[g].answers : i >= grading[g].pos})
                        + grading[g].pending
                   ELSE 0
        RECURSIVE SumLeft(_), SumAttempts(_)
        SumLeft(G) == IF G = {} THEN 0 ELSE LET g == CHOOSE x \in G : TRUE IN Left(g) + SumLeft(G \ {g})
        SumAttempts(Q) == IF Q = {} THEN 0
                          ELSE LET q == CHOOSE x \in Q : TRUE IN quizzes[q].attempts + SumAttempts(Q \ {q})
    IN  SumLeft(Graders) + SumAttempts(DOMAIN quizzes)

Graded(q, score) ==
    Response("submit", quizzes[q].user_id, FALSE, q, 200, [reason |-> "graded", score |-> score], 0)

\* submit_quiz up to its first await, or to its end when no answer is judged.
SubmitBegin(g, q, answers) ==
    /\ FreeGrader(g)
    /\ IF q \notin DOMAIN quizzes
       THEN /\ last' = Response("submit", 0, FALSE, q, 200, [reason |-> "Quiz not found"], 0)
            /\ UNCHANGED <<quizzes, grading>>
       ELSE IF NextKnown(q, answers, 0) = 0
       THEN /\ quizzes' = [quizzes EXCEPT ![q].score = AvgScore(0, answers), ![q].completed = TRUE]
            /\ last' = Graded(q, AvgScore(0, answers))
            /\ UNCHANGED grading
       ELSE /\ AttemptsDue + Len(answers) <= MaxAttempts
            /\ grading' = [grading EXCEPT ![g] =
                             [NotGrading EXCEPT !.pc = "judge_llm", !.quiz = q, !.answers = answers,
                                                !.pos = NextKnown(q, answers, 0)]]
            /\ UNCHANGED <<quizzes, last>>
    /\ UNCHANGED <<today, db, req, mastery>>

\* submit_quiz after the judge's answer: the attempt, the concept mastery (a
\* commit), then on to the next answer that is judged, or to the end: score,
\* completed, commit.
JudgeReturn(g, out) ==
    /\ grading[g].pc = "judge_llm"
    /\ LET st == grading[g]
           q == st.quiz
           concept == quizzes[q].concepts[st.answers[st.pos]]
           j == Judged(out)
           total == st.total + j.score
           next == NextKnown(q, st.answers, st.pos)
       IN  /\ IF concept # "none"
              THEN \E e \in First(MasteryRows(quizzes[q].user_id, concept)) :
                     mastery' = UpdateConceptMastery(quizzes[q].user_id, concept, j.understood, e)
              ELSE mastery' = mastery
           /\ IF next = 0
              THEN /\ quizzes' = [quizzes EXCEPT ![q].attempts = @ + st.pending + 1,
                                                 ![q].score = AvgScore(total, st.answers),
                                                 ![q].completed = TRUE]
                   /\ grading' = [grading EXCEPT ![g] = NotGrading]
                   /\ last' = Graded(q, AvgScore(total, st.answers))
              ELSE /\ quizzes' = IF concept # "none"
                                 THEN [quizzes EXCEPT ![q].attempts = @ + st.pending + 1]
                                 ELSE quizzes
                   /\ grading' = [grading EXCEPT ![g].pos = next, ![g].total = total,
                                                 ![g].pending = IF concept # "none" THEN 0
                                                                ELSE st.pending + 1]
                   /\ last' = last
    /\ UNCHANGED <<today, db, req>>

\* ------------------------------------------------------------------ scoring
\* The windows of calculate_adherence and get_user_status, in days, and the
\* thresholds of get_user_status, in hundredths.
AdherenceDays == 7
CheckinDays == 3
AtRiskBelow == 30
RecoveringBelow == 60

\* round(completed / total, 2), in hundredths.  A tie needs a total that is a
\* multiple of 8; completed / 8 is an exact double, which round() takes to the
\* even neighbour.
Round2(completed, total) ==
    LET q == (100 * completed) \div total
        rem == (100 * completed) % total
    IN  IF 2 * rem < total THEN q
        ELSE IF 2 * rem > total THEN q + 1
        ELSE IF q % 2 = 0 THEN q ELSE q + 1

\* The tasks of plan p that calculate_adherence counts.
WindowTasks(p) ==
    {t \in DOMAIN tasks : /\ tasks[t].plan_id = p
                          /\ tasks[t].date >= today - AdherenceDays
                          /\ tasks[t].date <= today}

\* Mutant: a plan without tasks in the window scores 0.
CalculateAdherenceZero(p) ==
    IF p = 0 THEN 0
    ELSE LET total == Cardinality(WindowTasks(p))
             completed == Cardinality({t \in WindowTasks(p) : tasks[t].status = "completed"})
         IN  IF total = 0 THEN 0 ELSE Round2(completed, total)

\* calculate_adherence, its plan query having returned p (0: no active plan).
CalculateAdherence(p) ==
    IF p = 0 THEN 0
    ELSE LET total == Cardinality(WindowTasks(p))
             completed == Cardinality({t \in WindowTasks(p) : tasks[t].status = "completed"})
         IN  IF total = 0 THEN 100 ELSE Round2(completed, total)

\* The check-ins get_user_status counts.
RecentCheckins(u) ==
    Cardinality({i \in DOMAIN checkins : checkins[i].user_id = u /\ checkins[i].date >= today - CheckinDays})

\* Mutant: a low adherence is tested only when there are recent check-ins,
\* and none of them makes the user recovering.
StatusLogicCheckinsFirst(adherence, recent) ==
    IF recent = 0 THEN "recovering"
    ELSE IF adherence < AtRiskBelow THEN "at_risk"
    ELSE IF adherence < RecoveringBelow THEN "recovering"
    ELSE "active"

\* The status logic of get_user_status.
StatusLogic(adherence, recent) ==
    IF adherence < AtRiskBelow \/ recent = 0 THEN "at_risk"
    ELSE IF adherence < RecoveringBelow THEN "recovering"
    ELSE "active"

\* get_user_status, its own plan query having returned p.
GetUserStatus(u, p) == StatusLogic(CalculateAdherence(p), RecentCheckins(u))

\* The quizzes calculate_knowledge averages.
KnowledgeQuizzes == 5

\* Mutant: the filter Quiz.completed == True is missing.
ScoredQuizzesAnyState(u) ==
    LET S == {i \in DOMAIN quizzes : quizzes[i].user_id = u}
    IN  {i \in S : Cardinality({j \in S : j > i}) < KnowledgeQuizzes}

\* The rows of the knowledge query: "Quiz.score is not None" is a Python
\* expression about the column object and is true, so that the filter is on
\* user and completed only; the newest five by created_at.
ScoredQuizzes(u) ==
    LET S == {i \in DOMAIN quizzes : quizzes[i].user_id = u /\ quizzes[i].completed}
    IN  {i \in S : Cardinality({j \in S : j > i}) < KnowledgeQuizzes}

\* round(x, 2) of the quotient num / den of two sums of scores, in hundredths;
\* a tie is an exact double here and goes to the even neighbour.
RoundMean(num, den) ==
    LET q == num \div den
        rem == num % den
    IN  IF 2 * rem < den THEN q
        ELSE IF 2 * rem > den THEN q + 1
        ELSE IF q % 2 = 0 THEN q ELSE q + 1

RECURSIVE SumOf(_, _)
SumOf(f, S) == IF S = {} THEN 0 ELSE LET x == CHOOSE y \in S : TRUE IN f[x] + SumOf(f, S \ {x})

\* calculate_knowledge: sum(q.score or 0) / len(quizzes), rounded.
CalculateKnowledge(u) ==
    LET S == ScoredQuizzes(u)
    IN  IF S = {} THEN 0
        ELSE RoundMean(SumOf([i \in S |-> IF quizzes[i].score = NoScore THEN 0 ELSE quizzes[i].score], S),
                       Cardinality(S))

\* calculate_retention
CalculateRetention(u) ==
    LET S == {i \in DOMAIN mastery : mastery[i].user_id = u}
        total_seen == SumOf([i \in S |-> mastery[i].times_seen], S)
        total_correct == SumOf([i \in S |-> mastery[i].times_correct], S)
    IN  IF S = {} \/ total_seen = 0 THEN 0 ELSE Round2(total_correct, total_seen)

\* get_full_metrics: calculate_adherence and get_user_status each query the
\* active plan.
FullMetrics(u, p1, p2) ==
    [reason |-> "metrics", adherence |-> CalculateAdherence(p1),
     knowledge |-> CalculateKnowledge(u), retention |-> CalculateRetention(u),
     status |-> GetUserStatus(u, p2)]

\* get_metrics_summary
GetMetrics(u) ==
    /\ \E p1 \in First(ActivePlans(u)), p2 \in First(ActivePlans(u)) :
         last' = Response("metrics", u, FALSE, 0, 200, FullMetrics(u, p1, p2), p1)
    /\ UNCHANGED <<today, db, req, evaluator>>

\* One evaluation of the status logic.
Adherences == 0..100
CheckinCounts == 0..2

Classify(a, n) ==
    /\ last' = Response("status", 0, FALSE, 0, 200,
                        [reason |-> "status", adherence |-> a, recent |-> n,
                         status |-> StatusLogic(a, n)], 0)
    /\ UNCHANGED <<today, db, req, evaluator>>

\* ------------------------------------------------------- adaptation policy
\* Scores are kept in hundredths.  The thresholds of AdaptationPolicy:
LowAdherence == 30
LowRetention == 50
HighScore == 80

\* Mutant: the retention rule is tried before the adherence rule.
DetermineAdjustmentRetentionFirst(adherence, knowledge, retention) ==
    IF retention < LowRetention THEN "repeat_concepts"
    ELSE IF adherence < LowAdherence THEN "reduce_scope"
    ELSE IF knowledge > HighScore /\ adherence > HighScore THEN "increase_challenge"
    ELSE "keep"

\* AdaptationPolicy.determine_adjustment
DetermineAdjustment(adherence, knowledge, retention) ==
    IF adherence < LowAdherence THEN "reduce_scope"
    ELSE IF retention < LowRetention THEN "repeat_concepts"
    ELSE IF knowledge > HighScore /\ adherence > HighScore THEN "increase_challenge"
    ELSE "keep"

\* The scores the policy is applied to: the thresholds, their neighbours, and
\* the values of the unit tests.
Scores == {20, 29, 30, 49, 50, 60, 70, 80, 81, 85, 90}

\* One call of determine_adjustment.
Adjust(a, k, r) ==
    /\ last' = Response("adjust", 0, FALSE, 0, 200,
                        [reason |-> "adjust", adherence |-> a, knowledge |-> k, retention |-> r,
                         plan_adjustment |-> DetermineAdjustment(a, k, r)], 0)
    /\ UNCHANGED <<today, db, req, evaluator>>

\* ---------------------------------------------------------- decision engine
\* The rows get_active_mitigations asks for, and the length of the list
\* generate_action returns.
TopRiskLimit == 3
MaxActiveMitigations == 3

Reminder == "check_in_reminder"

CommitmentRisks(c) == {i \in DOMAIN risks : risks[i].commitment_id = c}

\* ORDER BY priority LIMIT 3: the rows in an order the database may give them,
\* equal priorities in either order.
TopRisks(c) ==
    LET S == CommitmentRisks(c)
        n == Min(TopRiskLimit, Cardinality(S))
    IN  {s \in [1..n -> S] :
           /\ \A i, j \in 1..n : i < j => s[i] # s[j] /\ risks[s[i]].priority <= risks[s[j]].priority
           /\ \A k \in S : (\A i \in 1..n : s[i] # k) =>
                             \A i \in 1..n : risks[s[i]].priority <= risks[k].priority}

\* get_active_mitigations, its commitment query having returned c and its
\* risk query the rows top: the texts that are not empty.
GetActiveMitigations(c, top) ==
    IF c = 0 THEN <<>>
    ELSE SelectSeq([i \in DOMAIN top |-> risks[top[i]].mitigation], LAMBDA m : m # "")

Prefix(xs, n) == [i \in 1..Min(n, Len(xs)) |-> xs[i]]

\* Mutant: the reminder is put in front of the risks' mitigations.
GenerateActionReminderFirst(signals, mitigations) ==
    LET ms == IF signals.status = "at_risk" /\ \A i \in DOMAIN mitigations : mitigations[i] # Reminder
              THEN <<Reminder>> \o mitigations
              ELSE mitigations
    IN  [plan_adjustment |-> DetermineAdjustment(signals.adherence, signals.knowledge, signals.retention),
         risk_mitigation |-> Prefix(ms, MaxActiveMitigations)]

\* generate_action, given what get_signals and get_active_mitigations returned.
GenerateAction(signals, mitigations) ==
    LET ms == IF signals.status = "at_risk" /\ \A i \in DOMAIN mitigations : mitigations[i] # Reminder
              THEN Append(mitigations, Reminder)
              ELSE mitigations
    IN  [plan_adjustment |-> DetermineAdjustment(signals.adherence, signals.knowledge, signals.retention),
         risk_mitigation |-> Prefix(ms, MaxActiveMitigations)]

\* build_decision: get_signals for the signals, and generate_action with its
\* own get_signals for the action; every plan and commitment query is one
\* more SELECT.
BuildDecision(u) ==
    /\ \E p1 \in First(ActivePlans(u)), p2 \in First(ActivePlans(u)),
          p3 \in First(ActivePlans(u)), p4 \in First(ActivePlans(u)),
          c \in First(ActiveCommitments(u)) :
       \E top \in TopRisks(c) :
         LET signals == FullMetrics(u, p1, p2)
             action == GenerateAction(FullMetrics(u, p3, p4), GetActiveMitigations(c, top))
         IN  last' = Returned("compose", u, FALSE,
                              [Decision("compose", 0, signals.adherence, signals.knowledge,
                                        signals.retention, signals.status,
                                        action.risk_mitigation, <<>>, <<>>, <<>>)
                                 EXCEPT !.plan_adjustment = action.plan_adjustment], p3)
    /\ UNCHANGED <<today, db, req, evaluator>>

\* build_decision as a process that shares the database sees it.  The
\* function is synchronous, so that no handler of this service runs inside it;
\* but each of its queries is a statement of its own (the session never asks
\* for a snapshot), and the evaluator commits to the same database between
\* them.  The first step is the get_signals of "signals=", the second the
\* generate_action of "action=" with its own get_signals.
Composing == \E r \in Reqs : req[r].pc = "compose"

BuildDecisionSignals(r, u) ==
    /\ FreeSlot(r)
    /\ \E p1 \in First(ActivePlans(u)), p2 \in First(ActivePlans(u)) :
         Suspend(r, [Idle EXCEPT !.pc = "compose", !.user = u,
                                 !.signals = FullMetrics(u, p1, p2)])
    /\ UNCHANGED <<today, db, last, evaluator>>

BuildDecisionAction(r) ==
    /\ req[r].pc = "compose"
    /\ LET u == req[r].user
           signals == req[r].signals
       IN  \E p3 \in First(ActivePlans(u)), p4 \in First(ActivePlans(u)),
              c \in First(ActiveCommitments(u)) :
           \E top \in TopRisks(c) :
             LET action == GenerateAction(FullMetrics(u, p3, p4), GetActiveMitigations(c, top))
             IN  last' = Returned("compose", u, FALSE,
                                  [Decision("compose", 0, signals.adherence, signals.knowledge,
                                            signals.retention, signals.status,
                                            action.risk_mitigation, <<>>, <<>>, <<>>)
                                     EXCEPT !.plan_adjustment = action.plan_adjustment], p3)
    /\ Resume(r)
    /\ UNCHANGED <<today, db, evaluator>>

\* -------------------------------------------------------------- the system
Reasons == {0, 2, 6}
TaskIds == 0..MaxTaskId

CalendarNext == AdvanceDay

\* The commands, issued by the users of U through the request slots of R.
IntakeNext(R, U) ==
    \/ \E r \in R, u \in U : IntakeBegin(r, u)
    \/ \E r \in R, out \in IntakeOutcomes : IntakeReturn(r, out)

PremortemNext(R, U) ==
    \/ \E r \in R, u \in U, n \in Reasons : PremortemBegin(r, u, n)
    \/ \E r \in R, out \in PremortemOutcomes : PremortemReturn(r, out)

PlanNext(R, U, O) ==
    \/ \E r \in R, u \in U, force \in BOOLEAN : PlanBegin(r, u, force)
    \/ \E r \in R, out \in O : PlanReturn(r, out)

TaskNext(U) ==
    \/ \E u \in U : GetTodayTasks(u)
    \/ \E u \in U, id \in TaskIds : CompleteTask(u, id)

CheckinNext(R, U) ==
    \/ \E r \in R, u \in U, y \in Yesterdays, b \in Blockers : CheckinBegin(r, u, y, b)
    \/ \E r \in R, rag \in RagOutcomes : CheckinRag(r, rag)
    \/ \E r \in R, out \in CheckinOutcomes : CheckinReturn(r, out)

\* The evaluator's commands, through its slots G.
QuizNext(G, U, O) ==
    \/ \E g \in G, u \in U, n \in NumQuestions : GenerateBegin(g, u, n)
    \/ \E g \in G, out \in O : GenerateReturn(g, out)

SubmitNext(G, A, J) ==
    \/ \E g \in G, q \in 0..MaxQuizzes, answers \in A : SubmitBegin(g, q, answers)
    \/ \E g \in G, out \in J : JudgeReturn(g, out)

\* Requests one after the other: a single slot, so that no request begins
\* while another is suspended.
Sequential == {r \in Reqs : r <= 1}

\* The whole service, its requests interleaving at their awaits.
Next ==
    \/ CalendarNext
    \/ IntakeNext(Reqs, Users)
    \/ PremortemNext(Reqs, Users)
    \/ PlanNext(Reqs, Users, PlanOutcomes)
    \/ TaskNext(Users)
    \/ CheckinNext(Reqs, Users)
    \/ \E u \in Users : GetMetrics(u)
    \/ QuizNext(Graders, Users, QuizOutcomes)
    \/ SubmitNext(Graders, AnswerLists, JudgeOutcomes)

Spec == Init /\ [][Next]_vars

\* Intake and planning, one request after the other.
SeqPlanNext ==
    \/ CalendarNext
    \/ IntakeNext(Sequential, Users)
    \/ PlanNext(Sequential, Users, PlanOutcomes)

SpecSeqPlan == Init /\ [][SeqPlanNext]_vars

\* Intake and planning of one user, the requests interleaving at their awaits.
RacePlanNext ==
    \/ CalendarNext
    \/ IntakeNext(Reqs, {1})
    \/ PlanNext(Reqs, {1}, PlanOutcomes)

SpecRacePlan == Init /\ [][RacePlanNext]_vars

\* Intake, the requests interleaving at their awaits.
RaceIntakeNext ==
    \/ CalendarNext
    \/ IntakeNext(Reqs, Users)

SpecRaceIntake == Init /\ [][RaceIntakeNext]_vars

\* The four commands that return a decision, one request after the other; only
\* user 1 makes a commitment, and the plan generator is down.
SeqDecisionNext ==
    \/ IntakeNext(Sequential, {1})
    \/ PremortemNext(Sequential, Users)
    \/ PlanNext(Sequential, Users, {PlanOutcome(TRUE, DefaultPlan)})
    \/ CheckinNext(Sequential, Users)

SpecSeqDecision == Init /\ [][SeqDecisionNext]_vars

\* Planning and the task commands of one user, one request after the other.
SeqTaskNext ==
    \/ CalendarNext
    \/ IntakeNext(Sequential, {1})
    \/ PlanNext(Sequential, {1}, PlanOutcomes)
    \/ TaskNext({1})

SpecSeqTask == Init /\ [][SeqTaskNext]_vars

\* Intake and the premortem of one user, the requests interleaving at their awaits.
RacePremortemNext ==
    \/ IntakeNext(Reqs, {1})
    \/ PremortemNext(Reqs, {1})

SpecRacePremortem == Init /\ [][RacePremortemNext]_vars

\* The memory rule store of one user, reinforced call by call.
RuleStoreNext == \E ty \in RuleTypes, v \in RuleValues : ReinforceRule(1, ty, v)

SpecRuleStore == Init /\ [][RuleStoreNext]_vars

\* Intake and the check-ins of one user, the requests interleaving at their awaits.
RaceCheckinNext ==
    \/ IntakeNext(Reqs, {1})
    \/ CheckinNext(Reqs, {1})

SpecRaceCheckin == Init /\ [][RaceCheckinNext]_vars

\* The adaptation policy, applied call by call.
PolicyNext == \E a \in Scores, k \in Scores, r \in Scores : Adjust(a, k, r)

SpecPolicy == Init /\ [][PolicyNext]_vars

\* The status logic, applied evaluation by evaluation.
StatusNext == \E a \in Adherences, n \in CheckinCounts : Classify(a, n)

SpecStatus == Init /\ [][StatusNext]_vars

\* Planning, task completion and the metrics of one user, one request after
\* the other; the plans are the default one, one of two tasks, one without
\* tasks and one whose only task lies in the week after.
MetricsOutcomes ==
    {PlanOutcome(TRUE, DefaultPlan)} \cup {PlanOutcome(FALSE, j) : j \in {InContractPlan, NoTasksPlan, LateDayPlan}}

SeqMetricsNext ==
    \/ CalendarNext
    \/ IntakeNext(Sequential, {1})
    \/ PlanNext(Sequential, {1}, MetricsOutcomes)
    \/ \E id \in TaskIds : CompleteTask(1, id)
    \/ GetMetrics(1)

SpecSeqMetrics == Init /\ [][SeqMetricsNext]_vars

\* What the premortem generator answers in the runs of the decision engine:
\* an empty text and equal priorities among the first three risks, the
\* reminder's own text as a mitigation, four risks, none.
ComposeRisks ==
    {[raised |-> FALSE, risks |-> p] :
       p \in {<<>>,
              <<Risk("m1", 1), Risk("m2", 2), Risk("m3", 3), Risk("m4", 4)>>,
              <<Risk("m2", 2), Risk("", 1), Risk("m3", 2), Risk("m4", 3)>>,
              <<Risk(Reminder, 1), Risk("m2", 2)>>}}

\* One user's commands and the decision engine applied to what they persist.
SeqComposeNext ==
    \/ IntakeNext(Sequential, {1})
    \/ \E r \in Sequential : PremortemBegin(r, 1, 2)
    \/ \E r \in Sequential, out \in ComposeRisks : PremortemReturn(r, out)
    \/ PlanNext(Sequential, {1}, {PlanOutcome(FALSE, NoTasksPlan)})
    \/ \E r \in Sequential : CheckinBegin(r, 1, "long text", "none")
    \/ \E r \in Sequential : CheckinReturn(r, [raised |-> FALSE, next_task_timebox |-> 45, fallback_task |-> TRUE])
    \/ BuildDecision(1)

SpecSeqCompose == Init /\ [][SeqComposeNext]_vars

\* The decision engine of one user against the evaluator: intake and a plan
\* without tasks, one quiz at a time with one question on a concept, judged
\* right or wrong, and build_decision with the evaluator's commits between
\* its two readings.
RaceComposeNext ==
    \/ ~Composing /\ IntakeNext(Sequential, {1})
    \/ ~Composing /\ PlanNext(Sequential, {1}, {PlanOutcome(FALSE, NoTasksPlan)})
    \/ \E g \in {1} : Len(quizzes) < RaceQuizzes /\ GenerateBegin(g, 1, 5)
    \/ \E g \in {1} : GenerateReturn(g, [raised |-> FALSE, concepts |-> <<Topic>>])
    \/ \E g \in {1}, q \in 1..RaceQuizzes : SubmitBegin(g, q, <<1>>)
    \/ \E g \in {1}, sc \in {0, 100} : JudgeReturn(g, JudgeOutcome(FALSE, 0, sc, TRUE, sc = 100))
    \/ \E r \in Sequential : BuildDecisionSignals(r, 1)
    \/ \E r \in Sequential : BuildDecisionAction(r)

SpecRaceCompose == Init /\ [][RaceComposeNext]_vars

\* Two users, each with a commitment and plans of two tasks, completing tasks
\* by id and reading their metrics, one request after the other.
IsolationNext ==
    \/ IntakeNext(Sequential, Users)
    \/ PlanNext(Sequential, Users, {PlanOutcome(FALSE, InContractPlan)})
    \/ \E u \in Users, id \in TaskIds : CompleteTask(u, id)
    \/ \E u \in Users : GetMetrics(u)

SpecIsolation == Init /\ [][IsolationNext]_vars

\* The quizzes of one user, generated and graded one after the other, and the
\* metrics; each quiz has one question without a concept, and the judge gives
\* the one answer 0.0 or 1.0.
KnowledgeNext ==
    \/ \E g \in {1} : GenerateBegin(g, 1, 5)
    \/ \E g \in {1} : GenerateReturn(g, [raised |-> FALSE, concepts |-> <<"none">>])
    \/ \E g \in {1}, q \in 1..MaxQuizzes : SubmitBegin(g, q, <<1>>)
    \/ \E g \in {1}, sc \in {0, 100} : JudgeReturn(g, JudgeOutcome(FALSE, 0, sc, FALSE, FALSE))
    \/ GetMetrics(1)

SpecKnowledge == Init /\ [][KnowledgeNext]_vars

\* Quiz submissions of one user interleaving at the judge's awaits, on at most
\* RaceQuizzes quizzes whose first question is on the same concept.
RaceMasteryNext ==
    \/ \E g \in Graders : GenerateBegin(g, 1, 5) /\ Len(quizzes) + QuizzesInFlight < RaceQuizzes
    \/ \E g \in Graders, out \in {[raised |-> TRUE, concepts |-> <<>>],
                                    [raised |-> FALSE, concepts |-> <<"c1", "c2">>]} :
          GenerateReturn(g, out)
    \/ \E g \in Graders, q \in 1..RaceQuizzes, answers \in {<<1>>, <<1, 2>>, <<1, 1>>} :
          SubmitBegin(g, q, answers)
    \/ \E g \in Graders, out \in {JudgeOutcome(FALSE, 0, 100, TRUE, TRUE),
                                    JudgeOutcome(FALSE, 0, 0, TRUE, FALSE),
                                    JudgeOutcome(TRUE, 50, 0, FALSE, FALSE)} :
          JudgeReturn(g, out)

SpecRaceMastery == Init /\ [][RaceMasteryNext]_vars

\* ------------------------------------------------------------------ claims
\* The rows of a table that are active and belong to user u.
ActiveRows(table, u) ==
    {i \in DOMAIN table : table[i].user_id = u /\ table[i].is_active}

\* C1: in every state reached by request-weekly-plan calls made one after the
\* other, while the calendar advances, a user has at most one active Plan.
C1_AtMostOneActivePlan ==
    \A u \in Users : Cardinality(ActiveRows(plans, u)) <= 1

\* C2: when request-weekly-plan calls of one user interleave, no state has two
\* active Plans of the user and no two Plans of the user share a week and version.
C2_OneWinningWriter ==
    /\ \A u \in Users : Cardinality(ActiveRows(plans, u)) <= 1
    /\ \A p, q \in DOMAIN plans :
          (p # q /\ plans[p].user_id = plans[q].user_id
                 /\ plans[p].week_start = plans[q].week_start)
          => plans[p].version # plans[q].version

\* What one step may do to the table of commitments.
C3_CommitmentStep ==
    /\ \A u \in Users : Cardinality(ActiveRows(commitments', u)) <= 1
    /\ Len(commitments') >= Len(commitments)
    /\ \A i \in DOMAIN commitments :
          /\ commitments'[i].user_id = commitments[i].user_id
          /\ commitments'[i].is_active => commitments[i].is_active
    /\ Len(commitments') > Len(commitments) =>
          LET n == Len(commitments')
              u == commitments'[n].user_id
          IN  /\ n = Len(commitments) + 1
              /\ ActiveRows(commitments', u) = {n}
              /\ \A i \in DOMAIN commitments :
                    commitments[i].user_id # u => commitments'[i] = commitments[i]

\* C3: under every interleaving of create-commitment calls a user has at most
\* one active Commitment; the step that creates a Commitment leaves it the only
\* active one of its user, every earlier one of that user inactive and those of
\* other users as they were; no Commitment is ever deleted or reactivated.
C3_OneActiveCommitment == [][C3_CommitmentStep]_vars

\* Two create-commitment calls of one user are both suspended at the content
\* generator: the first one's Commitment is superseded, the second one's active.
C3_Witness ==
    /\ \A r \in Reqs : r <= 2 => req[r].pc = "intake_llm" /\ req[r].user = 1
    /\ Len(commitments) >= 2
    /\ ~commitments[1].is_active /\ commitments[2].is_active
    /\ commitments[1].user_id = 1 /\ commitments[2].user_id = 1


\* A step that answers a command at once: no handler is suspended or resumed.
Immediate(op, u) ==
    /\ today' = today
    /\ req' = req
    /\ last'.op = op
    /\ last'.user = u

\* A step that inserts a Plan; the new row is the last one.
PlanCreated == Len(plans') = Len(plans) + 1

\* C4: for a user with an active Commitment and an active Plan for the current
\* week, request-weekly-plan(force=false) returns that Plan's version, the same
\* as the call before it did, and changes nothing that is persisted.
C4_IdempotentRead ==
    [][\A u \in Users :
         (/\ ActiveRows(commitments, u) # {}
          /\ \E p \in ActiveRows(plans, u) : plans[p].week_start = WeekStart(today)
          /\ Immediate("plan", u)
          /\ ~last'.force)
         => /\ db' = db
            /\ last'.code = 200
            /\ last'.plan \in ActiveRows(plans, u)
            /\ plans[last'.plan].week_start = WeekStart(today)
            /\ last'.body.version = plans[last'.plan].version
            /\ (last.op = "plan" /\ last.user = u /\ last.plan = last'.plan)
                  => last'.body = last.body]_vars

\* C5: two request-weekly-plan(force=true) calls of a user, one after the other
\* in the same week, create Plans with versions N and N+1 for that week, and
\* after the second the Plan with version N+1 is the user's only active Plan.
C5_ForceTwice ==
    [][\A u \in Users :
         (/\ last.op = "plan" /\ last.user = u /\ last.force /\ last.plan # 0
          /\ last'.op = "plan" /\ last'.user = u /\ last'.force
          /\ PlanCreated
          /\ last'.plan = Len(plans')
          /\ plans'[last'.plan].week_start = plans[last.plan].week_start)
         => /\ plans'[last'.plan].version = plans[last.plan].version + 1
            /\ ActiveRows(plans', u) = {last'.plan}]_vars

\* C6: when request-weekly-plan creates a Plan, every Plan of the user that was
\* active before (for any week) is inactive afterwards and the new version is
\* the version of such a Plan plus one; with no Plan active before, it is 1.
C6_NewVersion ==
    [][PlanCreated =>
         LET n == Len(plans')
             before == ActiveRows(plans, plans'[n].user_id)
         IN  IF before # {}
             THEN /\ \A p \in before : ~plans'[p].is_active
                  /\ \E p \in before : plans'[n].version = plans[p].version + 1
             ELSE plans'[n].version = 1]_vars

\* C7: whatever the content generator does, the Plan that request-weekly-plan
\* creates is active, holds a task list of well-formed entries (the default
\* plan standing in for an invalid payload), has one DailyTask per entry, and
\* the call returns a decision.
C7_PlanNeverFails ==
    [][PlanCreated =>
         LET n == Len(plans')
             json == plans'[n].plan_json
         IN  /\ plans'[n].is_active
             /\ json.tasks_key
             /\ \A i \in DOMAIN json.tasks : json.tasks[i].dict
             /\ Cardinality({t \in DOMAIN tasks' : tasks'[t].plan_id = n}) = Len(json.tasks)
             /\ last'.op = "plan" /\ last'.plan = n /\ last'.code = 200]_vars

\* The decision contract of the spec: the schema, and at most 3 mitigations.
WellFormed(d) ==
    /\ d.adherence \in 0..100 /\ d.knowledge \in 0..100 /\ d.retention \in 0..100
    /\ d.status \in {"active", "at_risk", "recovering"}
    /\ d.plan_adjustment \in {"reduce_scope", "repeat_concepts", "increase_challenge", "keep"}
    /\ Len(d.risk_mitigation) <= 3
    /\ \A i \in DOMAIN d.next_tasks :
          /\ d.next_tasks[i].timebox_min >= 10 /\ d.next_tasks[i].timebox_min <= 120
          /\ d.next_tasks[i].type \in {"reading", "coding", "review", "quiz"}

\* C8: every create-commitment, submit-premortem, request-weekly-plan and
\* daily-checkin ends by returning a well-formed decision, whatever the content
\* generator and the resource lookup answered; none ends in a failure.
C8_AlwaysWellFormed ==
    last.op \in {"intake", "premortem", "plan", "checkin"}
    => last.code = 200 /\ WellFormed(last.body)

\* What one step may do for a user without an active Commitment.
C9_NoCommitmentStep ==
    /\ \A u \in Users :
         (/\ ActiveRows(commitments, u) = {}
          /\ \E op \in {"checkin", "plan", "premortem"} : Immediate(op, u))
         => /\ last'.code = 200
            /\ last'.body.adherence = 0 /\ last'.body.knowledge = 0
            /\ last'.body.retention = 0 /\ last'.body.status = "at_risk"
            /\ Len(last'.body.next_tasks) = 1
            /\ last'.body.next_tasks[1].task = "Complete intake assessment"
            /\ db' = db
    /\ \A r \in Reqs :
         (req[r].pc = "idle" /\ req'[r].pc \in {"checkin_rag", "checkin_llm", "plan_llm", "premortem_llm"})
         => ActiveRows(commitments, req'[r].user) # {}

\* C9: for a user without an active Commitment, daily-checkin, request-weekly-plan
\* and submit-premortem return the fixed no-commitment decision, change nothing
\* that is persisted and never reach the content generator or the resource lookup.
C9_NoCommitment == [][C9_NoCommitmentStep]_vars

\* User 2, who never made a Commitment, has just been answered by daily-checkin
\* while user 1 has a Plan with tasks, premortem risks and a check-in.
C9_Witness ==
    /\ last.op = "checkin" /\ last.user = 2 /\ last.code = 200
    /\ last.body.quality_flags = <<"no_commitment">>
    /\ ActiveRows(commitments, 2) = {}
    /\ plans # <<>> /\ tasks # <<>> /\ risks # <<>> /\ checkins # <<>> /\ rules # <<>>

\* C10 as the spec has it: complete-task with an id that matches no DailyTask
\* does not end in an error response, and get-today-tasks without an active
\* Plan returns the empty list.
C10_NotFoundRecovered ==
    /\ last.op = "complete" => last.code < 400
    /\ (last.op = "today" /\ last.plan = 0) => last.body.ids = {}

\* What the two task commands do when what they look up is not there.
C10_NotFoundStep ==
    \A u \in Users :
      /\ (Immediate("complete", u) /\ last'.task_id \notin DOMAIN tasks)
            => last'.code = 404 /\ db' = db
      /\ (Immediate("today", u) /\ ActiveRows(plans, u) = {})
            => last'.code = 200 /\ last'.body.ids = {} /\ db' = db

\* C10, amended: complete-task with an id that matches no DailyTask ends in a
\* 404 response and changes nothing that is persisted; get-today-tasks without
\* an active Plan returns the empty list.
C10_NotFound == [][C10_NotFoundStep]_vars

\* A complete-task for an unknown id has just been refused while DailyTasks
\* exist, one of them completed.
C10_Witness ==
    /\ last.op = "complete" /\ last.code = 404
    /\ last.task_id \notin DOMAIN tasks
    /\ \E t \in DOMAIN tasks : tasks[t].status = "completed"

\* C11: the DailyTasks that a request-weekly-plan step materializes follow the
\* entries of the new Plan one by one: date = week_start + max(0, day - 1),
\* a date within [week_start, week_start + 6], status pending, a task type of
\* the four, an unknown type string stored as reading.
C11_TaskDates ==
    [][PlanCreated =>
         LET n == Len(plans')
             ws == plans'[n].week_start
             entries == plans'[n].plan_json.tasks
         IN  \A t \in (DOMAIN tasks') \ (DOMAIN tasks) :
               LET e == entries[t - Len(tasks)]
                   offset == IF e.day - 1 > 0 THEN e.day - 1 ELSE 0
               IN  /\ tasks'[t].plan_id = n
                   /\ tasks'[t].date = ws + offset
                   /\ tasks'[t].date >= ws /\ tasks'[t].date <= ws + 6
                   /\ tasks'[t].status = "pending"
                   /\ tasks'[t].task_type \in {"reading", "coding", "review", "quiz"}
                   /\ e.type \notin {"reading", "coding", "review", "quiz"}
                         => tasks'[t].task_type = "reading"]_vars

\* The risks stored for commitment c, in row order, as (mitigation, priority).
RisksOfCommitment(table, c) ==
    LET rows == SelectSeq(table, LAMBDA x : x.commitment_id = c)
    IN  [i \in DOMAIN rows |-> [mitigation |-> rows[i].mitigation, priority |-> rows[i].priority]]

\* What one single submission can store: the generator's risks, or one
\* fallback risk per failure reason (at most 5).
OneSubmission ==
    PremortemPayloads \cup
    {[i \in 1..k |-> [mitigation |-> "Create accountability checkpoint", priority |-> i]] : k \in 0..5}

\* A submit-premortem that ends replaces the risks of its Commitment as a whole.
C12_ReplaceStep ==
    /\ \A r \in Reqs :
         (req[r].pc = "premortem_llm" /\ req'[r].pc = "idle") =>
           LET c == req[r].commitment
               stored == RisksOfCommitment(risks', c)
               k == IF Len(stored) < 3 THEN Len(stored) ELSE 3
           IN  /\ last'.op = "premortem"
               /\ last'.code = 200 =>
                     last'.body.risk_mitigation = [i \in 1..k |-> stored[i].mitigation]
               /\ last'.code # 200 => risks' = risks
               /\ \A d \in DOMAIN commitments :
                     d # c => RisksOfCommitment(risks', d) = RisksOfCommitment(risks, d)
    /\ \A c \in DOMAIN commitments' : RisksOfCommitment(risks', c) \in OneSubmission

\* C12: after every submit-premortem of a user with an active Commitment, also
\* when two submissions interleave, the risks of that Commitment are those of
\* one single submission, the last to commit (the one whose decision reports
\* them): nothing of an earlier or concurrent submission survives, nothing is
\* merged, and the risks of other Commitments are untouched.
C12_RisksReplaced == [][C12_ReplaceStep]_vars

\* A submission has committed its four risks while another submission for the
\* same Commitment, begun before that commit, is still suspended.
C12_Witness ==
    /\ last.op = "premortem" /\ last.code = 200
    /\ Len(last.body.risk_mitigation) = 3
    /\ req[1].pc = "idle" /\ req[2].pc = "premortem_llm"
    /\ Len(RisksOfCommitment(risks, req[2].commitment)) = 4

\* The active rules of a user with a rule type.
ActiveRules(table, u, ty) ==
    {i \in DOMAIN table : table[i].user_id = u /\ table[i].rule_type = ty /\ table[i].is_active}

\* What one reinforceRule(u, ty, v) does to the rule table.
C13_ReinforceStep ==
    \A u \in Users :
      Immediate("rule", u) =>
        LET ty == last'.body.rule_type
            v == last'.body.rule_value
            found == ActiveRules(rules, u, ty)
        IN  IF found # {}
            THEN \E e \in found :
                   LET sum == PlusTenth(rules[e].confidence)
                   IN  rules' = [rules EXCEPT ![e].confidence = IF sum < 10000 THEN sum ELSE 10000]
            ELSE rules' = rules \o <<[user_id |-> u, rule_type |-> ty, rule_value |-> v,
                                     confidence |-> 5000, is_active |-> TRUE]>>

\* C13: reinforceRule(u, ty, v) sets the confidence of the active rule with
\* the key (u, ty) to min(1.0, confidence + 0.1), in double arithmetic, and
\* leaves its rule_value and every other rule as they were; with no active rule
\* of that key it inserts exactly one rule, with confidence 0.5 and value v.
C13_Reinforce == [][C13_ReinforceStep]_vars

\* A rule stored with the value v1 has just been reinforced by a call that
\* supplied v2, next to a rule of the other type.
C13_Witness ==
    /\ last.op = "rule" /\ last.body.rule_value = "v2"
    /\ \E i \in ActiveRules(rules, last.user, last.body.rule_type) :
         rules[i].rule_value = "v1" /\ rules[i].confidence > 5000
    /\ Len(rules) = 2

\* C14: every confidence is within [0, 1] and never lower than before; a rule
\* starts at 0.5, so a rule above 0.85 has been reinforced at least four times,
\* and reinforcing it once more (the fifth time or a later one) leaves it at
\* exactly 1.0.
C14_ConfidenceCapped ==
    [][/\ \A i \in DOMAIN rules :
            /\ i \in DOMAIN rules'
            /\ rules'[i].confidence >= rules[i].confidence
       /\ \A i \in DOMAIN rules' :
            rules'[i].confidence >= 0 /\ rules'[i].confidence <= 10000
       /\ \A u \in Users :
            Immediate("rule", u) =>
              \A i \in ActiveRules(rules, u, last'.body.rule_type) :
                 rules[i].confidence > 8500 => rules'[i].confidence = 10000]_vars

\* C15: whatever the order and interleaving of the check-ins, there is at most
\* one MemoryRule for each user and rule type.
C15_RuleUnique ==
    \A u \in Users, ty \in {"task_skip", "time_constraint"} :
      Cardinality({i \in DOMAIN rules : rules[i].user_id = u /\ rules[i].rule_type = ty}) <= 1

\* Two check-ins of user 1 that both report a skipped session were suspended
\* together before any rule existed; the first has created the task_skip rule,
\* the second is about to resume.
C15_Witness ==
    /\ req[1].pc = "idle" /\ req[2].pc = "checkin_llm"
    /\ req[2].user = 1 /\ req[2].yesterday = "nothing"
    /\ last.op = "checkin" /\ last.user = 1 /\ Len(checkins) = 1
    /\ \E i \in DOMAIN rules :
         rules[i].user_id = 1 /\ rules[i].rule_type = "task_skip" /\ rules[i].confidence = 5000

\* C16: the adaptation policy returns, for every (adherence, knowledge,
\* retention), what the ordered rule table says: reduce_scope below adherence
\* 0.3, else repeat_concepts below retention 0.5, else increase_challenge when
\* knowledge and adherence are both above 0.8, else keep; so low adherence wins
\* over low retention and increase_challenge needs neither to be low.
C16_RuleTable ==
    last.op = "adjust" =>
      LET a == last.body.adherence
          k == last.body.knowledge
          r == last.body.retention
          adj == last.body.plan_adjustment
      IN  /\ adj \in {"reduce_scope", "repeat_concepts", "increase_challenge", "keep"}
          /\ adj = "reduce_scope" <=> a < 30
          /\ adj = "repeat_concepts" <=> (a >= 30 /\ r < 50)
          /\ adj = "increase_challenge" <=> (a >= 30 /\ r >= 50 /\ k > 80 /\ a > 80)
          /\ (a < 30 \/ r < 50) => adj # "increase_challenge"

\* determine(0.2, 0.5, 0.3): adherence and retention are both low, and the
\* answer is reduce_scope.
C16_Witness ==
    /\ last.op = "adjust"
    /\ last.body.adherence = 20 /\ last.body.knowledge = 50 /\ last.body.retention = 30
    /\ last.body.plan_adjustment = "reduce_scope"

\* C17: the status is a total function of the adherence and the number of
\* recent check-ins: at_risk below adherence 0.3 or without a recent check-in,
\* else recovering below 0.6, else active.
C17_StatusTotal ==
    last.op = "status" =>
      LET a == last.body.adherence
          n == last.body.recent
          st == last.body.status
      IN  /\ st \in {"active", "at_risk", "recovering"}
          /\ st = "at_risk" <=> (a < 30 \/ n = 0)
          /\ st = "recovering" <=> (a >= 30 /\ n > 0 /\ a < 60)
          /\ st = "active" <=> (a >= 60 /\ n > 0)

\* Full adherence without a recent check-in is classified at_risk.
C17_Witness ==
    /\ last.op = "status"
    /\ last.body.adherence = 100 /\ last.body.recent = 0
    /\ last.body.status = "at_risk"

\* The tasks of plan p dated within the seven days before today or today.
C18_Window(p) ==
    {t \in DOMAIN tasks : tasks[t].plan_id = p /\ tasks[t].date >= today - 7 /\ tasks[t].date <= today}

\* What the metrics report as adherence in a persisted state.
C18_AdherenceStep ==
    /\ \A u \in Users :
         Immediate("metrics", u) =>
           LET adh == last'.body.adherence
           IN  IF ActiveRows(plans, u) = {}
               THEN adh = 0
               ELSE \E p \in ActiveRows(plans, u) :
                      LET total == Cardinality(C18_Window(p))
                          completed == Cardinality({t \in C18_Window(p) : tasks[t].status = "completed"})
                      IN  IF total = 0
                          THEN adh = 100
                          ELSE /\ adh \in 0..100
                               /\ 2 * (100 * completed - adh * total) <= total
                               /\ 2 * (adh * total - 100 * completed) <= total
    /\ last'.op = "metrics" =>
         \A total \in 1..9 : \A completed \in 0..total :
         /\ Round2(completed, total) \in 0..100
         /\ 2 * (100 * completed - Round2(completed, total) * total) <= total
         /\ 2 * (Round2(completed, total) * total - 100 * completed) <= total
         /\ completed < total => Round2(completed, total) <= Round2(completed + 1, total)

\* C18: adherence is 0.0 without an active Plan, exactly 1.0 when the active
\* Plan has no task in the window, and otherwise completed / total rounded to
\* two decimals, which is within [0, 1] and does not decrease as completed grows.
C18_Adherence == [][C18_AdherenceStep]_vars

\* The metrics report 0.25: of the four tasks in the window one is completed.
C18_Witness ==
    /\ last.op = "metrics" /\ last.plan # 0
    /\ last.body.adherence = 25
    /\ Cardinality(C18_Window(last.plan)) = 4

\* The risks of commitment c that a priority order may put first: up to three
\* rows, by rising priority number, no row left out ranking before one taken.
C19_Top(c) ==
    LET S == {i \in DOMAIN risks : risks[i].commitment_id = c}
        n == IF Cardinality(S) < 3 THEN Cardinality(S) ELSE 3
    IN  {s \in [1..n -> S] :
           /\ \A i, j \in 1..n : i < j => s[i] # s[j] /\ risks[s[i]].priority <= risks[s[j]].priority
           /\ \A k \in S : (\A i \in 1..n : s[i] # k) =>
                             \A i \in 1..n : risks[s[i]].priority <= risks[k].priority}

\* The statuses the classifier may give user u: one per active plan the
\* adherence may be computed from.
C19_Statuses(u) ==
    {StatusLogic(CalculateAdherence(p), RecentCheckins(u)) : p \in First(ActiveRows(plans, u))}

\* riskMitigation as the claim builds it from the risk-derived entries.
C19_WithReminder(entries, st) ==
    IF st = "at_risk" /\ Len(entries) < 3 /\ \A i \in DOMAIN entries : entries[i] # "check_in_reminder"
    THEN Append(entries, "check_in_reminder")
    ELSE entries

\* The decisions whose risk-derived entries are texts(top) for a top of the
\* active commitment's risks.
C19_Composed(texts(_)) ==
    \A u \in Users :
      Immediate("compose", u) /\ last'.code = 200 =>
        LET rm == last'.body.risk_mitigation
        IN  /\ Len(rm) <= 3
            /\ \E st \in C19_Statuses(u) :
                 IF ActiveRows(commitments, u) = {}
                 THEN rm = C19_WithReminder(<<>>, st)
                 ELSE \E c \in ActiveRows(commitments, u) : \E top \in C19_Top(c) :
                        rm = C19_WithReminder(texts(top), st)

C19_Texts(top) == [i \in DOMAIN top |-> risks[top[i]].mitigation]

C19_NonEmptyTexts(top) == SelectSeq(C19_Texts(top), LAMBDA m : m # "")

\* C19 as stated: riskMitigation has at most 3 entries, the mitigation texts of
\* the up-to-3 highest-priority risks of the active Commitment in priority
\* order, then "check_in_reminder" iff the status is at_risk, it is not
\* already present and fewer than 3 risk-derived entries exist.
C19_AllTexts == [][C19_Composed(C19_Texts)]_vars

\* C19, amended: the risk-derived entries are the non-empty mitigation texts
\* of the up-to-3 highest-priority risks; a risk whose text is empty gives no
\* entry and no lower-priority risk takes its place.
C19_Mitigations == [][C19_Composed(C19_NonEmptyTexts)]_vars

\* A decision of an at_risk user whose first three risks hold an empty text:
\* two risk-derived entries, then the reminder.
C19_Witness ==
    /\ last.op = "compose" /\ last.code = 200
    /\ Len(last.body.risk_mitigation) = 3
    /\ last.body.risk_mitigation[3] = "check_in_reminder"
    /\ \E c \in ActiveRows(commitments, last.user) : \E top \in C19_Top(c) :
         /\ Len(top) = 3
         /\ \E i \in 1..3 : risks[top[i]].mitigation = ""

\* A step that ends a command of user u with a decision: an early return, or
\* the resumption of a suspended handler.
C20_Decided(op, u) ==
    /\ last'.op = op /\ last'.user = u /\ last'.code = 200
    /\ \/ Immediate(op, u)
       \/ \E r \in Reqs : req[r].pc # "idle" /\ req'[r].pc = "idle"

\* The decision of such a step against the scoring of the state it leaves.
C20_Step ==
    \A u \in Users : \A op \in {"checkin", "plan"} :
      C20_Decided(op, u) /\ ActiveRows(commitments', u) # {} =>
        LET d == last'.body
        IN  /\ \E p1 \in First(ActiveRows(plans', u)), p2 \in First(ActiveRows(plans', u)) :
                 /\ d.adherence = CalculateAdherence(p1)'
                 /\ d.knowledge = FullMetrics(u, p1, p2)'.knowledge
                 /\ d.retention = FullMetrics(u, p1, p2)'.retention
                 /\ d.status = GetUserStatus(u, p2)'
            /\ d.plan_adjustment = DetermineAdjustment(d.adherence, d.knowledge, d.retention)

\* C20: for a user with an active Commitment, the decision of daily-checkin
\* and of request-weekly-plan carries the signals that the Signal Calculator
\* and the Status Classifier give for the state after the command, and the
\* planAdjustment that the Adaptation Policy gives for those signals.
C20_FromPersistedState == [][C20_Step]_vars

\* The adherence of every plan, as calculate_adherence gives it.
C21_AdherenceOf(table) ==
    [p \in DOMAIN plans |->
       LET W == {t \in DOMAIN table : /\ table[t].plan_id = p
                                      /\ table[t].date >= today - 7 /\ table[t].date <= today}
       IN  IF W = {} THEN 100
           ELSE Round2(Cardinality({t \in W : table[t].status = "completed"}), Cardinality(W))]

C21_CompleteStep ==
    \A u \in Users : \A id \in TaskIds :
      Immediate("complete", u) /\ last'.task_id = id /\ id \in DOMAIN tasks =>
        /\ last'.code = 200
        /\ DOMAIN tasks' = DOMAIN tasks
        /\ tasks'[id].status = "completed"
        /\ tasks'[id].completed_at # 0
        /\ \A t \in DOMAIN tasks : t # id => tasks'[t] = tasks[t]
        /\ tasks[id].status = "completed" => C21_AdherenceOf(tasks') = C21_AdherenceOf(tasks)

\* C21: complete-task on an existing DailyTask sets its status to completed
\* and stamps a completion time, whatever the status was; called again on the
\* same task it does not fail, the status stays completed, no other task
\* changes, and the adherence is what it was after the first completion.
C21_CompleteIdempotent == [][C21_CompleteStep]_vars

\* A second complete-task on a task that counts in its plan's adherence.
C21_Witness ==
    /\ last.op = "complete" /\ last.code = 200
    /\ last.body.prior = "completed"
    /\ tasks[last.task_id].status = "completed"
    /\ tasks[last.task_id].date >= today - 7 /\ tasks[last.task_id].date <= today

\* The user's currently active plan: the most recently created of the active ones.
C22_CurrentPlan(u) == CHOOSE p \in ActiveRows(plans, u) : \A q \in ActiveRows(plans, u) : q <= p

C22_TodayStep ==
    \A u \in Users :
      Immediate("today", u) =>
        /\ last'.code = 200
        /\ \A t \in last'.body.ids : plans[tasks[t].plan_id].is_active
        /\ IF ActiveRows(plans, u) = {}
           THEN last'.body.ids = {}
           ELSE last'.body.ids =
                  {t \in DOMAIN tasks : tasks[t].plan_id = C22_CurrentPlan(u) /\ tasks[t].date = today}

\* C22: after any plan requests (forced or not, across days and weeks) and
\* task completions, get-today-tasks returns exactly the DailyTasks dated
\* today of the user's currently active Plan, the most recently created one,
\* the empty list when there is no active Plan, and never a task of a
\* superseded Plan.
C22_TodayTasks == [][C22_TodayStep]_vars

\* The five most recently created of the user's quizzes that are completed
\* and have a score.
C23_Recent(u) ==
    LET S == {i \in DOMAIN quizzes : /\ quizzes[i].user_id = u
                                     /\ quizzes[i].completed
                                     /\ quizzes[i].score # NoScore}
    IN  {i \in S : Cardinality({j \in S : j > i}) < 5}

RECURSIVE C23_Sum(_)
C23_Sum(S) == IF S = {} THEN 0 ELSE LET i == CHOOSE j \in S : TRUE IN quizzes[i].score + C23_Sum(S \ {i})

C23_KnowledgeStep ==
    \A u \in Users :
      Immediate("metrics", u) =>
        LET k == last'.body.knowledge
            n == Cardinality(C23_Recent(u))
        IN  IF n = 0 THEN k = 0
            ELSE /\ 2 * (C23_Sum(C23_Recent(u)) - k * n) <= n
                 /\ 2 * (k * n - C23_Sum(C23_Recent(u))) <= n

\* C23: knowledge is the mean, to two decimals, of the scores of the five most
\* recently created Quizzes of the user that are completed and have a score;
\* a Quiz without a score is neither selected nor averaged as 0; 0.0 when
\* there is no such Quiz.
C23_Knowledge == [][C23_KnowledgeStep]_vars

\* Six graded quizzes, the oldest with score 0.0 and the others with 1.0: the
\* knowledge is 1.0.
C23_Witness ==
    /\ last.op = "metrics" /\ last.body.knowledge = 100
    /\ Len(quizzes) = 6
    /\ \A i \in DOMAIN quizzes : quizzes[i].completed
    /\ quizzes[1].score = 0

RECURSIVE C24_Total(_, _)
C24_Total(S, column) ==
    IF S = {} THEN 0
    ELSE LET i == CHOOSE j \in S : TRUE IN mastery[i][column] + C24_Total(S \ {i}, column)

\* C24: in every state that quiz submissions reach, one after the other or
\* interleaved, each ConceptMastery row has times_seen = times_correct +
\* times_wrong, so that a user's sum of times_correct is within his sum of
\* times_seen and the retention is within [0, 1].
C24_MasteryConsistent ==
    /\ \A i \in DOMAIN mastery :
         /\ mastery[i].times_seen = mastery[i].times_correct + mastery[i].times_wrong
         /\ mastery[i].times_correct >= 0 /\ mastery[i].times_wrong >= 0
    /\ \A u \in Users :
         LET S == {i \in DOMAIN mastery : mastery[i].user_id = u}
         IN  /\ C24_Total(S, "times_correct") <= C24_Total(S, "times_seen")
             /\ CalculateRetention(u) \in 0..100

\* Two submissions are both between their first and their second answer on
\* the same concept; one was judged understood and the other not, and both
\* have updated the one row of the concept.
C24_Witness ==
    /\ \A g \in Graders :
         /\ grading[g].pc = "judge_llm" /\ grading[g].pos = 2
         /\ grading[g].answers = <<1, 1>>
         /\ quizzes[grading[g].quiz].concepts[1] = "c1"
    /\ \E i \in DOMAIN mastery :
         /\ mastery[i].concept = "c1"
         /\ mastery[i].times_correct = 1 /\ mastery[i].times_wrong = 1

\* A metrics call changes no table, and what it returns is what every call in
\* that state and on that day returns.
C25_MetricsStep ==
    \A u \in Users :
      Immediate("metrics", u) =>
        /\ db' = db /\ quizzes' = quizzes /\ mastery' = mastery
        /\ \A p1 \in First(ActiveRows(plans, u)), p2 \in First(ActiveRows(plans, u)) :
             last'.body = FullMetrics(u, p1, p2)

C26_LifecycleStep ==
    /\ \A i \in DOMAIN plans :
         /\ i \in DOMAIN plans'
         /\ plans'[i].user_id = plans[i].user_id
         /\ plans'[i].week_start = plans[i].week_start
         /\ plans'[i].version = plans[i].version
         /\ plans'[i].is_active => plans[i].is_active
    /\ \A i \in DOMAIN plans' \ DOMAIN plans :
         /\ plans'[i].is_active
         /\ ActiveRows(commitments, plans'[i].user_id) # {}
    /\ \A u \in Users : ActiveRows(plans, u) # {} => ActiveRows(plans', u) # {}

\* C26: a Plan is created active, for a user who holds an active Commitment;
\* its is_active only goes from true to false and never back; no Plan is
\* deleted and none changes its week_start or version; and a user who has an
\* active Plan keeps having one.
C26_PlanLifecycle == [][C26_LifecycleStep]_vars

\* A superseded plan and, for the same user and week, its active successor.
C26_Witness ==
    \E i, j \in DOMAIN plans :
      /\ i < j
      /\ ~plans[i].is_active /\ plans[j].is_active
      /\ plans[i].user_id = plans[j].user_id
      /\ plans[i].week_start = plans[j].week_start
      /\ plans[j].version = plans[i].version + 1

\* The tasks of plan p dated within the AdherenceDays calendar days that end
\* today: today and the six days before it.
C27_Window(p) ==
    {t \in DOMAIN tasks : /\ tasks[t].plan_id = p
                          /\ tasks[t].date > today - AdherenceDays
                          /\ tasks[t].date <= today}

C27_WindowStep ==
    \A u \in Users :
      (Immediate("metrics", u) /\ last'.plan # 0) =>
        LET W == C27_Window(last'.plan)
            completed == Cardinality({t \in W : tasks[t].status = "completed"})
        IN  last'.body.adherence = IF W = {} THEN 100 ELSE Round2(completed, Cardinality(W))

\* C27: the adherence the metrics report for the plan they scored is the one
\* of its tasks dated within the 7 calendar days ending today; a task of a
\* later date, or one dated 7 days before today, is not counted.
C27_SevenDayWindow == [][C27_WindowStep]_vars

\* The persisted DailyTasks of plan p.
C28_TasksOfPlan(p) == {t \in DOMAIN tasks : tasks[t].plan_id = p}

\* C28: in every state, each active Plan has a DailyTask row for every entry
\* of its task list, so that whoever reads an active Plan (get-today-tasks,
\* the adherence) finds its tasks with it.
C28_ActivePlanHasItsTasks ==
    \A p \in DOMAIN plans :
      plans[p].is_active =>
        Cardinality(C28_TasksOfPlan(p)) = Len(TasksOf(plans[p].plan_json))

\* The mitigation texts of the risks of u's active commitments.
C29_RiskTexts(u) ==
    {risks[i].mitigation : i \in {j \in DOMAIN risks : risks[j].commitment_id \in ActiveRows(commitments, u)}}

C29_Entries(d) == {d.risk_mitigation[i] : i \in DOMAIN d.risk_mitigation}

C29_Step ==
    \A r \in Reqs :
      (req[r].pc = "compose" /\ req'[r].pc = "idle" /\ last'.code = 200) =>
        LET d == last'.body
        IN  /\ d.plan_adjustment = DetermineAdjustment(d.adherence, d.knowledge, d.retention)
            /\ (d.status = "at_risk" /\ Len(d.risk_mitigation) < MaxActiveMitigations)
                 => Reminder \in C29_Entries(d)
            /\ (d.status # "at_risk" /\ Reminder \notin C29_RiskTexts(req[r].user))
                 => Reminder \notin C29_Entries(d)

\* C29: in every decision build_decision returns, planAdjustment is what
\* determine_adjustment gives for the adherence, knowledge and retention of
\* the decision's own signals, and "check_in_reminder" is in riskMitigation
\* (room permitting) when the decision's status is at_risk and only then,
\* whatever is committed by others while the decision is built.
C29_DecisionConsistent == [][C29_Step]_vars

\* The user whose plan task t belongs to.
C30_Owner(t) == plans[tasks[t].plan_id].user_id

C30_Step ==
    \A u \in Users :
      Immediate("complete", u) =>
        /\ \A t \in DOMAIN tasks : tasks'[t] # tasks[t] => C30_Owner(t) = u
        /\ \A v \in Users \ {u} : \A p \in ActiveRows(plans, v) :
             /\ CalculateAdherence(p)' = CalculateAdherence(p)
             /\ GetUserStatus(v, p)' = GetUserStatus(v, p)

\* C30: a complete-task of user u changes a DailyTask only if the task belongs
\* to a Plan of u, and leaves the adherence and the status of every other
\* user as they were.
C30_OwnTasksOnly == [][C30_Step]_vars

====
